---- MODULE Spec2Model ----
(***************************************************************************)
(* License activation service of src/main.py (StaffHelp API 3.4.0): the    *)
(* licenses table and the four handlers that touch it (verify, genkey,     *)
(* revoke, list_keys).  Every handler opens its own SQLAlchemy session;    *)
(* the store is shared by all workers serving requests.  A handler is one  *)
(* step up to and including its first statement that reaches the database  *)
(* (the lookup, or the only commit), and one more step for the commit that *)
(* follows a lookup: other requests can come between the two.              *)
(*                                                                         *)
(* Python strings are sequences of one-character strings; None is a value  *)
(* that is no string.                                                      *)
(*                                                                         *)
(* The tables admins, log_config, message_logs and staff_stats and their   *)
(* handlers (add_admin, del_admin, toggle_logs, log_message, report_stats) *)
(* share nothing with the licenses but the database: they have their own   *)
(* specifications, in which one worker serves one request after the other. *)
(***************************************************************************)
EXTENDS Integers, Sequences, FiniteSets, Bags, TLC

\* ------------------------------------------------------------------ bounds
\* Workers that can serve requests at the same time.
NumWorkers == 2
\* Distinct keys generate_key can draw in the model.
NumKeys == 2
\* Distinct hardware identifiers clients send.
NumHwids == 2
\* Requests served in one behaviour.
MaxRequests == 4
\* Distinct user ids the requests to the admins table name.
NumUsers == 2
\* Widest step between the alphabet positions of two consecutive characters
\* in the draws of KeySpec.
MaxStride == 2

\* ------------------------------------------------------------------ values
None == <<"None">>
EmptyStr == <<>>

\* bug: the check written `is None`, letting the empty string through
Falsy_NoneOnly(v) == v = None

\* `not v` for a value that is None or a string
Falsy(v) == v = None \/ v = EmptyStr

\* string.ascii_uppercase + string.digits
alphabet ==
    << "A", "B", "C", "D", "E", "F", "G", "H", "I", "J", "K", "L", "M",
       "N", "O", "P", "Q", "R", "S", "T", "U", "V", "W", "X", "Y", "Z",
       "0", "1", "2", "3", "4", "5", "6", "7", "8", "9" >>

\* "-".join(parts) for a sequence of strings
RECURSIVE Join(_)
Join(parts) ==
    IF Len(parts) = 0 THEN <<>>
    ELSE IF Len(parts) = 1 THEN parts[1]
    ELSE parts[1] \o <<"-">> \o Join(Tail(parts))

\* bug: range(4), groups of four characters
generate_key_Short(draw) ==
    Join([g \in 1..3 |-> [i \in 1..4 |-> alphabet[draw[(g - 1) * 4 + i]]]])

\* generate_key, given the 15 indices secrets.choice draws into alphabet
generate_key(draw) ==
    Join([g \in 1..3 |-> [i \in 1..5 |-> alphabet[draw[(g - 1) * 5 + i]]]])

\* The n-th draw of secrets.choice the model considers: 15 consecutive
\* positions of the alphabet, wrapping around.
Draw(n) == [j \in 1..15 |-> (((n - 1) * 15 + (j - 1)) % Len(alphabet)) + 1]

\* the keys generate_key returns in the model, in a fixed order
KeySeq == [n \in 1..NumKeys |-> generate_key(Draw(n))]

Keys == {KeySeq[n] : n \in 1..NumKeys}

\* the hardware IDs clients send in the model, in a fixed order
HwidSeq == [n \in 1..NumHwids |-> <<"H", "W", alphabet[27 + n]>>]

Hwids == {HwidSeq[n] : n \in 1..NumHwids}

Nicknames == {None, <<"a", "l", "i", "c", "e">>}

Workers == 1..NumWorkers

\* ------------------------------------------------------------------- state
VARIABLES
    store,     \* table licenses: function from the stored keys to their row
    pc,        \* per worker: "idle", or the commit its handler is about to run
    req,       \* per worker: key, hwid, nickname of the request it serves
    open,      \* workers whose session is open (SessionLocal() not yet closed)
    last,      \* the response of the request completed last
    served,    \* number of requests completed
    binders,   \* per key: hwids answered "binded" since genkey last
               \* created a record under the key
    admins,        \* table admins: function from the stored user_id to role
    log_config,    \* table log_config: function from the stored id to enabled
    message_logs,  \* table message_logs: its rows, in the order of their id
    staff_stats,   \* table staff_stats: the bag of its rows (less the id)
    reply,         \* the response of the request to these tables completed last
    toggled        \* what the last toggle_logs that returned set, None if none

vars == <<store, pc, req, open, last, served, binders,
          admins, log_config, message_logs, staff_stats, reply, toggled>>

\* the state of the license handlers, but for the count of requests
licenses == <<store, pc, req, open, last, binders>>

\* the other tables and what is observed of their handlers
others == <<admins, log_config, message_logs, staff_stats, reply, toggled>>

\* bug: the column default written default=False
License_Inactive(key) == [hwid |-> None, nickname |-> None, active |-> FALSE]

\* class License: the row db.add(License(key=key)) INSERTs
License(key) == [hwid |-> None, nickname |-> None, active |-> TRUE]

NoReq == [key |-> None, hwid |-> None, nickname |-> None]

NoResponse == [op |-> "none", key |-> None, hwid |-> None, nickname |-> None,
               code |-> 0, detail |-> "", rows |-> {}, session |-> FALSE]

NoReply == [op |-> "none", data |-> None, code |-> 0, detail |-> "",
            result |-> None]

InFlight == {p \in Workers : pc[p] # "idle"}

Init ==
    /\ store = <<>>
    /\ pc = [p \in Workers |-> "idle"]
    /\ req = [p \in Workers |-> NoReq]
    /\ open = {}
    /\ last = NoResponse
    /\ served = 0
    /\ binders = [k \in Keys |-> {}]
    /\ admins = <<>>
    /\ log_config = <<>>
    /\ message_logs = <<>>
    /\ staff_stats = EmptyBag
    /\ reply = NoReply
    /\ toggled = None

\* a request goes to the first free worker (workers are interchangeable), as
\* long as the behaviour has requests left
CanAccept(p) ==
    /\ pc[p] = "idle"
    /\ \A q \in Workers : q < p => pc[q] # "idle"
    /\ served + Cardinality(InFlight) < MaxRequests

\* db = SessionLocal(): the sessions open once worker p has opened its own
SessionLocal(p) == open \cup {p}

\* bug: no finally, the session is never closed
Close_Leak(s, p) == s

\* finally: db.close(): the sessions left of s once worker p has closed its own
Close(s, p) == s \ {p}

\* bug: get-or-create, a lookup that hands out a new License for an unknown key
First_GetOrCreate(key) ==
    IF key \in DOMAIN store THEN <<store[key]>>
    ELSE <<[hwid |-> None, nickname |-> None, active |-> TRUE]>>

\* db.query(License).filter_by(key=key).first(): <<>> for None, else <<row>>
First(key) == IF key \in DOMAIN store THEN <<store[key]>> ELSE <<>>

\* the handler returns or raises: the response goes out and the worker is
\* free.  `session` tells whether the handler had called SessionLocal().
Respond(p, op, key, hwid, nickname, code, detail, rows, session) ==
    /\ last' = [op |-> op, key |-> key, hwid |-> hwid, nickname |-> nickname,
                code |-> code, detail |-> detail, rows |-> rows,
                session |-> session]
    /\ served' = served + 1
    /\ pc' = [pc EXCEPT ![p] = "idle"]
    /\ req' = [req EXCEPT ![p] = NoReq]
    /\ UNCHANGED others

\* the handler goes on to db.commit() with its session open
Proceed(p, at, key, hwid, nickname) ==
    /\ pc' = [pc EXCEPT ![p] = at]
    /\ req' = [req EXCEPT ![p] =
                  [key |-> key, hwid |-> hwid, nickname |-> nickname]]
    /\ open' = SessionLocal(p)
    /\ UNCHANGED <<store, last, served, binders>>
    /\ UNCHANGED others

\* ------------------------------------------------------------------ verify
\* bug: the comparison dropped, any hardware ID passes on a bound key
hwid_mismatch_Never(row, hwid) == FALSE

\* line 218: lic.hwid != hwid
hwid_mismatch(row, hwid) == row.hwid # hwid

\* bug: lic.nickname = nickname moved before the hwid checks, so a request
\* that verifies a bound key relabels it
verify_Relabel(p, key, hwid, nickname) ==
    /\ CanAccept(p)
    /\ IF Falsy(key) \/ Falsy(hwid)
       THEN /\ Respond(p, "verify", key, hwid, nickname, 400, "invalid_request", {}, FALSE)
            /\ UNCHANGED <<store, open, binders>>
       ELSE LET lic == First(key)
            IN  IF lic = <<>> \/ ~lic[1].active
                THEN /\ Respond(p, "verify", key, hwid, nickname, 403, "invalid_key", {}, TRUE)
                     /\ open' = Close(SessionLocal(p), p)
                     /\ UNCHANGED <<store, binders>>
                ELSE IF lic[1].hwid = None
                THEN Proceed(p, "verify_commit", key, hwid, nickname)
                ELSE IF hwid_mismatch(lic[1], hwid)
                THEN /\ Respond(p, "verify", key, hwid, nickname, 403, "hwid_mismatch", {}, TRUE)
                     /\ open' = Close(SessionLocal(p), p)
                     /\ UNCHANGED <<store, binders>>
                ELSE /\ Respond(p, "verify", key, hwid, nickname, 200, "ok", {}, TRUE)
                     /\ open' = Close(SessionLocal(p), p)
                     /\ store' = [store EXCEPT ![key].nickname = nickname]
                     /\ UNCHANGED binders

\* POST /verify, lines 196-221 but for the commit: validation, the session,
\* the lookup and its branches
verify(p, key, hwid, nickname) ==
    /\ CanAccept(p)
    /\ IF Falsy(key) \/ Falsy(hwid)
       THEN /\ Respond(p, "verify", key, hwid, nickname, 400, "invalid_request", {}, FALSE)
            /\ UNCHANGED <<store, open, binders>>
       ELSE LET lic == First(key)
            IN  IF lic = <<>> \/ ~lic[1].active
                THEN /\ Respond(p, "verify", key, hwid, nickname, 403, "invalid_key", {}, TRUE)
                     /\ open' = Close(SessionLocal(p), p)
                     /\ UNCHANGED <<store, binders>>
                ELSE IF lic[1].hwid = None
                THEN Proceed(p, "verify_commit", key, hwid, nickname)
                ELSE IF hwid_mismatch(lic[1], hwid)
                THEN /\ Respond(p, "verify", key, hwid, nickname, 403, "hwid_mismatch", {}, TRUE)
                     /\ open' = Close(SessionLocal(p), p)
                     /\ UNCHANGED <<store, binders>>
                ELSE /\ Respond(p, "verify", key, hwid, nickname, 200, "ok", {}, TRUE)
                     /\ open' = Close(SessionLocal(p), p)
                     /\ UNCHANGED <<store, binders>>

\* bug: the nickname is stored but lic.hwid = hwid is missing
BindRow_Forget(row, hwid, nickname) ==
    [row EXCEPT !.nickname = IF nickname = None THEN @ ELSE nickname]

\* bug: the bind wrapped in `if nickname:`, nothing is stored without one
BindRow_NeedsNickname(row, hwid, nickname) ==
    IF nickname = None THEN row
    ELSE [row EXCEPT !.hwid = hwid, !.nickname = nickname]

\* variant: the UPDATE guarded by WHERE hwid IS NULL, the first writer wins
BindRow_FirstWins(row, hwid, nickname) ==
    IF row.hwid = None
    THEN [row EXCEPT !.hwid = hwid,
                     !.nickname = IF nickname = None THEN @ ELSE nickname]
    ELSE row

\* the UPDATE the flush of lines 213-215 emits: SET the attributes that
\* changed (None written over None is no change), WHERE licenses.key = key
BindRow(row, hwid, nickname) ==
    [row EXCEPT !.hwid = hwid,
                !.nickname = IF nickname = None THEN @ ELSE nickname]

\* bug: an upsert, the commit INSERTs the row again when it is gone
verify_commit_Upsert(p) ==
    /\ pc[p] = "verify_commit"
    /\ LET key == req[p].key
           hwid == req[p].hwid
       IN  /\ store' = [k \in DOMAIN store \cup {key} |->
                            IF k = key
                            THEN BindRow(IF k \in DOMAIN store THEN store[k]
                                         ELSE License(k), hwid, req[p].nickname)
                            ELSE store[k]]
           /\ binders' = [binders EXCEPT ![key] = @ \cup {hwid}]
           /\ Respond(p, "verify", key, hwid, req[p].nickname, 200, "binded", {}, TRUE)
           /\ open' = Close(open, p)

\* lines 213-216: lic.hwid = hwid; lic.nickname = nickname; db.commit().
\* The UPDATE of a row that is gone matches no row and the flush raises.
verify_commit(p) ==
    /\ pc[p] = "verify_commit"
    /\ LET key == req[p].key
           hwid == req[p].hwid
       IN  IF key \in DOMAIN store
           THEN /\ store' = [store EXCEPT
                                ![key] = BindRow(@, hwid, req[p].nickname)]
                /\ binders' = [binders EXCEPT ![key] = @ \cup {hwid}]
                /\ Respond(p, "verify", key, hwid, req[p].nickname, 200, "binded", {}, TRUE)
                /\ open' = Close(open, p)
           ELSE /\ Respond(p, "verify", key, hwid, req[p].nickname, 500,
                        "StaleDataError", {}, TRUE)
                /\ open' = Close(open, p)
                /\ UNCHANGED <<store, binders>>

\* ------------------------------------------------------------------ genkey
\* the table after INSERT INTO licenses of the row of License(key=key)
Insert(key) ==
    [k \in DOMAIN store \cup {key} |-> IF k = key THEN License(key) ELSE store[k]]

\* bug: db.merge(License(key=key)) for db.add: a key drawn again replaces
\* the row it finds
genkey_Merge(p, generated) ==
    /\ CanAccept(p)
    /\ LET key == generated
       IN  /\ store' = Insert(key)
           /\ binders' = [k \in DOMAIN binders |->
                              IF k = key THEN {} ELSE binders[k]]
           /\ Respond(p, "genkey", key, None, None, 200, "key", {}, TRUE)
           /\ open' = Close(SessionLocal(p), p)

\* POST /admin/genkey, lines 228-236, when generate_key() returns `generated`.
\* db.commit() INSERTs the row; key is the primary key, so a second row with
\* the same key is refused and the commit raises.
genkey(p, generated) ==
    /\ CanAccept(p)
    /\ LET key == generated
       IN  IF key \in DOMAIN store
           THEN /\ Respond(p, "genkey", key, None, None, 500, "IntegrityError", {}, TRUE)
                /\ open' = Close(SessionLocal(p), p)
                /\ UNCHANGED <<store, binders>>
           ELSE /\ store' = Insert(key)
                /\ binders' = [k \in DOMAIN binders |->
                                   IF k = key THEN {} ELSE binders[k]]
                /\ Respond(p, "genkey", key, None, None, 200, "key", {}, TRUE)
                /\ open' = Close(SessionLocal(p), p)

\* ------------------------------------------------------------------ revoke
\* POST /admin/revoke, lines 240-249: the lookup, 404 when there is no row,
\* else db.delete(lic)
revoke(p, key) ==
    /\ CanAccept(p)
    /\ LET lic == First(key)
       IN  IF lic = <<>>
           THEN /\ Respond(p, "revoke", key, None, None, 404, "not found", {}, TRUE)
                /\ open' = Close(SessionLocal(p), p)
                /\ UNCHANGED <<store, binders>>
           ELSE Proceed(p, "revoke_commit", key, None, None)

\* variant: a soft delete, the row is kept with active = False
Delete_Soft(key) ==
    [k \in DOMAIN store |->
        IF k = key THEN [store[k] EXCEPT !.active = FALSE] ELSE store[k]]

\* bug: db.delete(lic) missing, the commit deletes nothing
Delete_Nothing(key) == store

\* the table after DELETE FROM licenses WHERE licenses.key = key; a DELETE
\* that matches no row is a warning, not an error
Delete(key) == [k \in DOMAIN store \ {key} |-> store[k]]

\* lines 249-251: db.delete(lic); db.commit()
revoke_commit(p) ==
    /\ pc[p] = "revoke_commit"
    /\ LET key == req[p].key
       IN  /\ store' = Delete(key)
           /\ UNCHANGED binders
           /\ Respond(p, "revoke", key, None, None, 200, "deleted", {}, TRUE)
           /\ open' = Close(open, p)

\* --------------------------------------------------------------- list_keys
\* bug: the dict reports the nickname under "hwid"
Entry_Swapped(k) == [key |-> k, hwid |-> store[k].nickname,
                     nickname |-> store[k].nickname, active |-> store[k].active]

\* one dict of the list comprehension of lines 260-268
Entry(k) == [key |-> k, hwid |-> store[k].hwid,
             nickname |-> store[k].nickname, active |-> store[k].active]

\* GET /admin/list, lines 257-270: db.query(License).all(), a dict per row
list_keys(p) ==
    /\ CanAccept(p)
    /\ Respond(p, "list_keys", None, None, None, 200, "list",
               {Entry(k) : k \in DOMAIN store}, TRUE)
    /\ open' = Close(SessionLocal(p), p)
    /\ UNCHANGED <<store, binders>>

\* ---------------------------------------------------------------- failures
\* the database or the connection fails under the first statement of a
\* handler: the exception leaves through finally, the answer is a 500
QueryFails(p, op, key, hwid, nickname) ==
    /\ CanAccept(p)
    /\ op = "verify" => ~(Falsy(key) \/ Falsy(hwid))
    /\ Respond(p, op, key, hwid, nickname, 500, "error", {}, TRUE)
    /\ open' = Close(SessionLocal(p), p)
    /\ UNCHANGED <<store, binders>>

\* the same under the db.commit() that follows a lookup
CommitFails(p) ==
    /\ pc[p] \in {"verify_commit", "revoke_commit"}
    /\ Respond(p, IF pc[p] = "verify_commit" THEN "verify" ELSE "revoke",
               req[p].key, req[p].hwid, req[p].nickname, 500, "error", {}, TRUE)
    /\ open' = Close(open, p)
    /\ UNCHANGED <<store, binders>>

\* ------------------------------------------------------------------ inputs
\* Keys are interchangeable, and so are hardware IDs: a value that occurs
\* nowhere in the state stands for every such value.  The requests
\* considered carry the values that occur in the state and, of those that do
\* not, the first one.
UsedKeys ==
    Keys \cap (DOMAIN store \cup {req[p].key : p \in Workers} \cup {last.key}
                 \cup {e.key : e \in last.rows}
                 \cup {k \in Keys : binders[k] # {}})

UsedHwids ==
    Hwids \cap ({store[k].hwid : k \in DOMAIN store}
                  \cup {req[p].hwid : p \in Workers} \cup {last.hwid}
                  \cup {e.hwid : e \in last.rows}
                  \cup UNION {binders[k] : k \in Keys})

\* the members of seq that are in used, and the first one that is not
UpToFirstNew(seq, used) ==
    LET new == {n \in DOMAIN seq : seq[n] \notin used}
    IN  used \cup {seq[n] : n \in {m \in new : \A l \in new : m <= l}}

\* what generate_key() can return
KeyDraws == UpToFirstNew(KeySeq, UsedKeys)

\* what a client can put in the "key" and "hwid" fields of a request body
KeyInputs == KeyDraws \cup {None, EmptyStr}
HwidInputs == UpToFirstNew(HwidSeq, UsedHwids) \cup {None, EmptyStr}

\* ----------------------------------------------------------- specification
\* what worker p can do next
Serve(p) ==
    \/ \E key \in KeyInputs, hwid \in HwidInputs, nickname \in Nicknames :
           verify(p, key, hwid, nickname)
    \/ verify_commit(p)
    \/ \E generated \in KeyDraws : genkey(p, generated)
    \/ \E key \in KeyInputs : revoke(p, key)
    \/ revoke_commit(p)
    \/ list_keys(p)
    \/ \E key \in KeyInputs, hwid \in HwidInputs, nickname \in Nicknames :
           QueryFails(p, "verify", key, hwid, nickname)
    \/ \E generated \in KeyDraws : QueryFails(p, "genkey", generated, None, None)
    \/ \E key \in KeyInputs : QueryFails(p, "revoke", key, None, None)
    \/ QueryFails(p, "list_keys", None, None, None)
    \/ CommitFails(p)

Next == \E p \in Workers : Serve(p)

\* several workers (processes or replicas of the service) share the database
Spec == Init /\ [][Next]_vars

\* No handler writes the column active.  An administrator who disables a key
\* without deleting it does so on the database, outside the service.
Deactivate(k) ==
    /\ k \in DOMAIN store
    /\ store[k].active
    /\ store' = [store EXCEPT ![k].active = FALSE]
    /\ UNCHANGED <<pc, req, open, last, served, binders>>
    /\ UNCHANGED others

AdminNext == Next \/ \E k \in Keys : Deactivate(k)

\* the service next to an administrator who disables keys on the database
AdminSpec == Init /\ [][AdminNext]_vars

\* one worker: the handlers are coroutines that never await between opening
\* and closing their session, so one event loop serves the requests one
\* after the other
SeqNext == Serve(1)

SeqSpec == Init /\ [][SeqNext]_vars

\* What secrets.choice can draw is any 15 positions of the alphabet.  The
\* draws considered start at any position a and advance by b per character,
\* wrapping around: every character occurs at every place of the key.
Stride(a, b) == [j \in 1..15 |-> ((a + b * (j - 1)) % Len(alphabet)) + 1]

DrawSet == {Stride(a, b) : a \in 0..(Len(alphabet) - 1), b \in 0..MaxStride}

\* two successive calls of genkey, each with any of these draws
KeyNext ==
    \E draw \in DrawSet : served < 2 /\ genkey(1, generate_key(draw))

KeySpec == Init /\ [][KeyNext]_vars

\* ------------------------------------------------------------ request data
\* A request body that is a JSON object is a record over the fields its
\* handler reads; a field the object does not have holds Absent.  A number
\* is PyInt(n) and a boolean PyBool(b), so that no value of one type equals
\* a value of another.
Absent == <<"Absent">>

PyInt(n) == <<"int", n>>

PyBool(b) == <<"bool", b>>

\* isinstance(v, bool)
IsBool(v) == Len(v) = 2 /\ v[1] = "bool"

\* data.get(field, default)
Get(data, field, default) ==
    IF data[field] = Absent THEN default ELSE data[field]

\* the handler returns or raises: the response goes out
Reply(p, op, data, code, detail, result) ==
    /\ reply' = [op |-> op, data |-> data, code |-> code, detail |-> detail,
                 result |-> result]
    /\ served' = served + 1
    /\ UNCHANGED licenses

\* the database or the connection fails under a statement of the handler:
\* the session is rolled back and closed, the answer is a 500
DbFails(p, op, data) ==
    /\ CanAccept(p)
    /\ Reply(p, op, data, 500, "error", None)
    /\ UNCHANGED <<admins, log_config, message_logs, staff_stats, toggled>>

\* ------------------------------------------------------------------ admins
role_admin == <<"a", "d", "m", "i", "n">>
role_root == <<"r", "o", "o", "t">>
role_kyrator == <<"k", "y", "r", "a", "t", "o", "r">>

\* line 122: ("admin", "root", "kyrator")
ValidRoles == {role_admin, role_root, role_kyrator}

UserIds == {PyInt(n) : n \in 1..NumUsers}

\* bug: the lookup filters on nothing that matches
FirstAdmin_None(user_id) == <<>>

\* db.query(Admin).filter_by(user_id=user_id).first(): <<>> for None, else
\* <<role>>
FirstAdmin(user_id) ==
    IF user_id \in DOMAIN admins THEN <<admins[user_id]>> ELSE <<>>

\* the table after INSERT INTO admins of the row (user_id, role)
InsertAdmin(user_id, role) ==
    [u \in DOMAIN admins \cup {user_id} |->
        IF u = user_id THEN role ELSE admins[u]]

\* lines 130-132: db.add(Admin(...)); db.commit(), with the primary key
\* `inserted`; user_id is the primary key, a second row with it is refused
CommitAdmin(p, data, inserted, role) ==
    IF inserted = None \/ inserted \in DOMAIN admins
    THEN /\ Reply(p, "add_admin", data, 500, "IntegrityError", None)
         /\ UNCHANGED admins
    ELSE /\ admins' = InsertAdmin(inserted, role)
         /\ Reply(p, "add_admin", data, 200, "ok", None)

\* POST /admin/addadmin, lines 118-134.  Without "user_id" the row is added
\* with user_id None: the column is an integer primary key, which the
\* database generates (any value, `generated`) or refuses as NULL
\* (generated = None), depending on the backend.
add_admin(p, data, generated) ==
    /\ CanAccept(p)
    /\ UNCHANGED <<log_config, message_logs, staff_stats, toggled>>
    /\ LET user_id == Get(data, "user_id", None)
           role == Get(data, "role", role_admin)
       IN  IF role \notin ValidRoles
           THEN /\ Reply(p, "add_admin", data, 400, "invalid role", None)
                /\ UNCHANGED admins
           ELSE IF FirstAdmin(user_id) # <<>>
           THEN /\ Reply(p, "add_admin", data, 409, "already exists", None)
                /\ UNCHANGED admins
           ELSE CommitAdmin(p, data,
                            IF user_id = None THEN generated ELSE user_id, role)

\* the table after DELETE FROM admins WHERE admins.user_id = user_id
DeleteAdmin(user_id) == [u \in DOMAIN admins \ {user_id} |-> admins[u]]

\* POST /admin/deladmin, lines 138-151
del_admin(p, data) ==
    /\ CanAccept(p)
    /\ UNCHANGED <<log_config, message_logs, staff_stats, toggled>>
    /\ LET user_id == Get(data, "user_id", None)
       IN  IF FirstAdmin(user_id) = <<>>
           THEN /\ Reply(p, "del_admin", data, 404, "not found", None)
                /\ UNCHANGED admins
           ELSE /\ admins' = DeleteAdmin(user_id)
                /\ Reply(p, "del_admin", data, 200, "deleted", None)

\* the bodies of the requests to add_admin and del_admin
RoleInputs ==
    {Absent, None, role_admin, role_root, role_kyrator, <<"o", "w", "n", "e", "r">>}

AddAdminBodies ==
    {[user_id |-> u, role |-> r] : u \in UserIds \cup {Absent}, r \in RoleInputs}

DelAdminBodies == {[user_id |-> u] : u \in UserIds \cup {Absent}}

AdminsNext ==
    \/ \E data \in AddAdminBodies, generated \in UserIds \cup {None} :
           add_admin(1, data, generated)
    \/ \E data \in DelAdminBodies : del_admin(1, data)
    \/ \E data \in AddAdminBodies :
           /\ Get(data, "role", role_admin) \in ValidRoles
           /\ DbFails(1, "add_admin", data)
    \/ \E data \in DelAdminBodies : DbFails(1, "del_admin", data)

\* the admins table, one request after the other
AdminsSpec == Init /\ [][AdminsNext]_vars

\* ----------------------------------------------------------------- logging
\* bug: a missing row counts as enabled
logs_enabled_NoRow(db) == IF 1 \in DOMAIN db THEN db[1] ELSE TRUE

\* logs_enabled, lines 102-104, db being the table log_config:
\* cfg = db.query(LogConfig).get(1); bool(cfg and cfg.enabled)
logs_enabled(db) == IF 1 \in DOMAIN db THEN db[1] ELSE FALSE

\* lines 164-170: the row with id 1 is created (LogConfig(enabled=enabled),
\* id by its default 1) or updated
SetConfig(enabled) ==
    [i \in DOMAIN log_config \cup {1} |->
        IF i = 1 THEN enabled ELSE log_config[i]]

\* POST /admin/logs, lines 156-173
toggle_logs(p, data) ==
    /\ CanAccept(p)
    /\ UNCHANGED <<admins, message_logs, staff_stats>>
    /\ LET enabled == Get(data, "enabled", None)
       IN  IF ~IsBool(enabled)
           THEN /\ Reply(p, "toggle_logs", data, 400,
                         "enabled must be boolean", None)
                /\ UNCHANGED <<log_config, toggled>>
           ELSE /\ log_config' = SetConfig(enabled[2])
                /\ toggled' = enabled
                /\ Reply(p, "toggle_logs", data, 200, "enabled",
                         PyBool(log_config'[1]))

\* the row MessageLog(user_id=..., role=..., text=...) gets: id is an integer
\* primary key, generated by the database (rows are never deleted); the
\* timestamp created_at, which no handler reads, is left out
MessageLog(data) ==
    [id |-> Len(message_logs) + 1, user_id |-> data.user_id,
     role |-> data.role, text |-> data.text]

\* POST /admin/log_message, lines 177-191; data["user_id"] of a body without
\* the field raises KeyError
log_message(p, data) ==
    /\ CanAccept(p)
    /\ UNCHANGED <<admins, log_config, staff_stats, toggled>>
    /\ IF ~logs_enabled(log_config)
       THEN /\ Reply(p, "log_message", data, 200, "disabled", None)
            /\ UNCHANGED message_logs
       ELSE IF \E f \in {"user_id", "role", "text"} : data[f] = Absent
       THEN /\ Reply(p, "log_message", data, 500, "KeyError", None)
            /\ UNCHANGED message_logs
       ELSE /\ message_logs' = Append(message_logs, MessageLog(data))
            /\ Reply(p, "log_message", data, 200, "ok", None)

\* the bodies of the requests to toggle_logs and log_message
ToggleBodies ==
    {[enabled |-> e] :
        e \in {Absent, None, PyBool(TRUE), PyBool(FALSE), PyInt(1),
                <<"t", "r", "u", "e">>}}

MessageBodies ==
    {[user_id |-> PyInt(1), role |-> role_admin, text |-> t] :
        t \in {Absent, <<"h", "i">>, <<"y", "o">>}}

LogNext ==
    \/ \E data \in ToggleBodies : toggle_logs(1, data)
    \/ \E data \in MessageBodies : log_message(1, data)
    \/ \E data \in ToggleBodies :
           /\ IsBool(Get(data, "enabled", None))
           /\ DbFails(1, "toggle_logs", data)
    \/ \E data \in MessageBodies : DbFails(1, "log_message", data)

\* the logging switch and the message log, one request after the other
LogSpec == Init /\ [][LogNext]_vars

\* ------------------------------------------------------------------- stats
\* The body of a request: b"" is EmptyStr, NotJson is a text json.loads
\* refuses, Json(v) is the text of the JSON value v.  A JSON value is None
\* (null), a string, PyInt(n), PyList (the array []) or PyDict(fields).
NotJson == <<"{">>

Json(v) == <<"json", v>>

PyList == <<"list">>

PyDict(fields) == <<"dict", fields>>

\* isinstance(v, dict): the values that have a method get
IsDict(v) == Len(v) = 2 /\ v[1] = "dict"

IsInt(v) == Len(v) = 2 /\ v[1] = "int"

\* json.loads(raw.decode()): <<>> when it raises, else <<the value>>
Loads(raw) == IF Len(raw) = 2 /\ raw[1] = "json" THEN <<raw[2]>> ELSE <<>>

\* a or b, for values that are None or strings
Or(a, b) == IF Falsy(a) THEN b ELSE a

\* string.digits
digits == SubSeq(alphabet, 27, 36)

\* int(v) of a string of decimal digits
RECURSIVE DecimalValue(_)
DecimalValue(v) ==
    IF Len(v) = 0 THEN 0
    ELSE 10 * DecimalValue(SubSeq(v, 1, Len(v) - 1))
         + (CHOOSE n \in 0..9 : digits[n + 1] = v[Len(v)])

\* safe_int, lines 96-100, for v None, an int or a string: int(v) raises for
\* None and for a string that is no number (of the strings int() accepts,
\* the model has the unsigned digit strings)
safe_int(v, d) ==
    IF IsInt(v) THEN v[2]
    ELSE IF v # None /\ Len(v) > 0
            /\ \A i \in 1..Len(v) : \E n \in 1..10 : digits[n] = v[i]
    THEN DecimalValue(v)
    ELSE d

UNKNOWN == <<"U", "N", "K", "N", "O", "W", "N">>

\* line 285: stats = data.get("current", data)
StatsOf(data) == Get(data[2], "current", data)

\* line 286
StaffOf(data) ==
    Or(Or(Get(data[2], "staffNickname", None), Get(data[2], "staff", None)),
       UNKNOWN)

\* db.query(StaffStats).filter_by(staff=staff, date=date): the rows found
Matching(staff, date) ==
    {r \in BagToSet(staff_stats) : r.staff = staff /\ r.date = date}

\* the columns of StaffStats but id (a random token no handler reads: rows
\* are told apart by what they hold, and the table is a bag) and updated_at
\* (a timestamp no handler reads)
StaffStats(staff, date, bans, mutes, total) ==
    [staff |-> staff, date |-> date, bans |-> bans, mutes |-> mutes,
     total |-> total]

\* lines 295-312: the row .first() returns is updated, or a row is added
Upsert(p, raw, staff, date, bans, mutes, total) ==
    LET found == Matching(staff, date)
        new == SetToBag({StaffStats(staff, date, bans, mutes, total)})
    IN  /\ IF found # {}
           THEN \E row \in found :
                    staff_stats' = (staff_stats (-) SetToBag({row})) (+) new
           ELSE staff_stats' = staff_stats (+) new
        /\ Reply(p, "report_stats", raw, 200, "ok", None)

\* the request gets past the three returns of "ignored" and the two reads
\* of .get, to SessionLocal() of line 295
ReachesSession(raw) ==
    /\ raw # EmptyStr
    /\ Loads(raw) # <<>>
    /\ IsDict(Loads(raw)[1])
    /\ IsDict(StatsOf(Loads(raw)[1]))
    /\ ~Falsy(Get(StatsOf(Loads(raw)[1])[2], "date", None))

\* POST /stats/report, lines 275-314.  data.get and stats.get of a value
\* that is no dict raise AttributeError outside any try.
report_stats(p, raw) ==
    /\ CanAccept(p)
    /\ UNCHANGED <<admins, log_config, message_logs, toggled>>
    /\ IF Falsy(raw) \/ Loads(raw) = <<>>
       THEN /\ Reply(p, "report_stats", raw, 200, "ignored", None)
            /\ UNCHANGED staff_stats
       ELSE LET data == Loads(raw)[1]
            IN  IF ~IsDict(data) \/ ~IsDict(StatsOf(data))
                THEN /\ Reply(p, "report_stats", raw, 500, "AttributeError",
                              None)
                     /\ UNCHANGED staff_stats
                ELSE LET stats == StatsOf(data)
                         staff == StaffOf(data)
                         date == Get(stats[2], "date", None)
                         bans == safe_int(Get(stats[2], "bans", None), 0)
                         mutes == safe_int(Get(stats[2], "mutes", None), 0)
                         total == bans + mutes
                     IN  IF Falsy(date)
                         THEN /\ Reply(p, "report_stats", raw, 200, "ignored",
                                       None)
                              /\ UNCHANGED staff_stats
                         ELSE Upsert(p, raw, staff, date, bans, mutes, total)

\* the bodies of the requests to report_stats: the fields "staffNickname"
\* and "staff", the date, "bans" and "mutes", and where these three are
StaffForms ==
    { <<<<"A", "l">>, <<"B", "o">>>>, <<EmptyStr, <<"A", "l">>>>,
      <<Absent, Absent>> }

CountForms ==
    { <<Absent, Absent>>, <<PyInt(2), PyInt(1)>>, <<<<"7">>, <<"x">>>> }

\* {"staffNickname": .., "staff": .., "date": .., "bans": .., "mutes": ..},
\* or the last three under "current"
Report(names, date, counts, nested) ==
    LET stats == [date |-> date, bans |-> counts[1], mutes |-> counts[2]]
    IN  Json(PyDict(
            [staffNickname |-> names[1], staff |-> names[2],
             current |-> IF nested THEN PyDict(stats) ELSE Absent,
             date |-> IF nested THEN Absent ELSE date,
             bans |-> IF nested THEN Absent ELSE counts[1],
             mutes |-> IF nested THEN Absent ELSE counts[2]]))

\* every dated report; the undated ones of one sender; and the bodies that
\* are no report: empty, no JSON, null, [], and {"current": null}
ReportBodies ==
    {Report(n, d, c, nested) :
        n \in StaffForms, d \in {<<"d", "1">>, <<"d", "2">>},
        c \in CountForms, nested \in BOOLEAN}
    \cup {Report(<<Absent, Absent>>, d, <<PyInt(2), PyInt(1)>>, nested) :
            d \in {Absent, EmptyStr}, nested \in BOOLEAN}
    \cup {EmptyStr, NotJson, Json(None), Json(PyList),
          Json(PyDict([staffNickname |-> Absent, staff |-> Absent,
                       current |-> None, date |-> <<"d", "1">>,
                       bans |-> PyInt(2), mutes |-> PyInt(1)]))}

StatsNext ==
    \/ \E raw \in ReportBodies : report_stats(1, raw)
    \/ \E raw \in ReportBodies :
           /\ ReachesSession(raw)
           /\ DbFails(1, "report_stats", raw)

\* the staff_stats table, one request after the other
StatsSpec == Init /\ [][StatsNext]_vars

\* ------------------------------------------------------------- observations
\* this step answers a request to handler op
Answers(op) == served' = served + 1 /\ last'.op = op

\* this step answers a request to handler op at its arrival: the handler ran
\* from its first line to its return or raise with no commit to wait for
AnswersAtOnce(op) == Answers(op) /\ pc' = pc

\* a field of a request body that is absent, null or the empty string
Missing(v) == v \in {None, EmptyStr}

\* the answer of this step is not the 500 of a database failure
NoFailure == last'.code # 500

\* key k has a record and no hardware ID was bound since genkey created it
Fresh(k) == k \in DOMAIN store /\ binders[k] = {}

\* ------------------------------------------------------------------ claims

\* the steps C1 allows
C1_Step ==
    (Answers("verify") /\ NoFailure /\ last'.key \in DOMAIN store
        /\ ~Missing(last'.hwid))
    => LET k == last'.key
           h == last'.hwid
       IN  /\ Fresh(k) =>
                 /\ last'.code = 200 /\ last'.detail = "binded"
                 /\ k \in DOMAIN store' /\ store'[k].hwid = h
                 /\ binders'[k] = {h}
           /\ h \in binders[k] =>
                 /\ last'.code = 200 /\ last'.detail = "ok"

\* C1: one request after the other, and with no database failure: Activate
\* (k, h) on a key k that IssueKey returned and nothing has bound since is
\* answered 200 "binded" and stores h; Activate(k, h) on a key whose record
\* was answered "binded" for that same h is answered 200 "ok".
C1_BindThenVerify == [][C1_Step]_vars

\* C1 witness: a key bound by one Activate has just been verified by a second
\* Activate with the same hardware ID.
C1_Witness ==
    /\ last.op = "verify" /\ last.detail = "ok"
    /\ last.key \in DOMAIN store
    /\ binders[last.key] = {last.hwid}
    /\ store[last.key].hwid = last.hwid

\* the steps C2 allows
C2_Step ==
    (AnswersAtOnce("verify") /\ NoFailure /\ last'.key \in DOMAIN store
        /\ ~Missing(last'.hwid)
        /\ store[last'.key].active
        /\ store[last'.key].hwid \notin {None, last'.hwid})
    => /\ last'.code = 403 /\ last'.detail = "hwid_mismatch"
       /\ store' = store

\* a request reaches the commit of verify only on a record it found unbound
C2_CommitOnlyUnbound ==
    \A p \in Workers :
        (pc[p] = "idle" /\ pc'[p] = "verify_commit")
        => /\ req'[p].key \in DOMAIN store
           /\ store[req'[p].key].hwid = None

\* C2: an Activate(k, h2) that finds k bound to another hardware ID h1 is
\* answered 403 "hwid_mismatch" and leaves the table as it was, so k is
\* still bound to h1.
C2_MismatchKeepsBinding == [][C2_Step /\ C2_CommitOnlyUnbound]_vars

\* C2 witness: a key bound to one hardware ID has just refused another one.
C2_Witness ==
    /\ last.op = "verify" /\ last.detail = "hwid_mismatch"
    /\ last.key \in DOMAIN store
    /\ store[last.key].hwid # last.hwid
    /\ binders[last.key] = {store[last.key].hwid}

\* C3: the hardware ID of a record, once set, never changes while the record
\* exists.  (Several workers break it: two Activate calls that both found
\* the key unbound both commit.)
C3_HwidWrittenOnce ==
    [][\A k \in Keys :
          (k \in DOMAIN store /\ k \in DOMAIN store' /\ store[k].hwid # None)
          => store'[k].hwid = store[k].hwid]_vars

\* the steps C4 allows
C4_Step ==
    /\ Answers("verify") => DOMAIN store' = DOMAIN store
    /\ (AnswersAtOnce("verify") /\ NoFailure
            /\ ~Missing(last'.key) /\ ~Missing(last'.hwid)
            /\ (last'.key \notin DOMAIN store \/ ~store[last'.key].active))
       => /\ last'.code = 403 /\ last'.detail = "invalid_key"
          /\ store' = store
    /\ \A p \in Workers :
           (pc[p] = "idle" /\ pc'[p] = "verify_commit")
           => /\ req'[p].key \in DOMAIN store
              /\ store[req'[p].key].active
              /\ store' = store

\* C4: an Activate on a key with no record (never issued, or deleted), or
\* with a record whose active is false, is answered 403 "invalid_key" at once
\* and changes nothing; no step of verify, whatever its answer, adds or
\* removes a record.
C4_UnknownKeyRejected == [][C4_Step]_vars

\* C4 witness: an Activate with the hardware ID a key is bound to was just
\* refused with invalid_key, the key having been disabled.
C4_Witness ==
    /\ last.op = "verify" /\ last.detail = "invalid_key"
    /\ last.key \in DOMAIN store
    /\ ~store[last.key].active
    /\ store[last.key].hwid = last.hwid

\* the request answered last was a successful RevokeKey(k)
Revoked(k) == last.op = "revoke" /\ last.code = 200 /\ last.key = k

\* the steps C5 allows
C5_Step ==
    /\ (Answers("revoke") /\ NoFailure /\ last'.key \in DOMAIN store)
       => /\ last'.code = 200 /\ last'.detail = "deleted"
          /\ DOMAIN store' = DOMAIN store \ {last'.key}
          /\ \A k \in DOMAIN store' : store'[k] = store[k]
    /\ (Answers("revoke") /\ NoFailure /\ Revoked(last'.key))
       => /\ last'.code = 404 /\ last'.detail = "not found"
          /\ store' = store
    /\ (Answers("verify") /\ NoFailure /\ ~Missing(last'.hwid)
            /\ (Revoked(last'.key)
                   \/ last'.key \in Keys \ DOMAIN store))
       => /\ last'.code = 403 /\ last'.detail = "invalid_key"

\* C5: one request after the other, and with no database failure: RevokeKey
\* (k) on a key with a record, bound or not, is answered 200 "deleted" and
\* removes that record only; an Activate(k, h) while k has no record is
\* answered 403 "invalid_key"; a RevokeKey(k) right after a successful
\* RevokeKey(k) is answered 404 and leaves the table as it was.
C5_RevokeDeletesOnce == [][C5_Step]_vars

\* C5 witness: the record of a key that had been bound is gone and a further
\* RevokeKey of that key was just answered 404.
C5_Witness ==
    /\ last.op = "revoke" /\ last.code = 404
    /\ last.key \in Keys \ DOMAIN store
    /\ binders[last.key] # {}

\* the steps C6 allows
C6_Step ==
    \A p \in Workers :
        (pc[p] = "verify_commit" /\ pc'[p] = "idle" /\ NoFailure)
        => /\ last'.op = "verify"
           /\ last'.code = 200 /\ last'.detail = "binded"
           /\ last'.hwid = req[p].hwid
           /\ store'[req[p].key].hwid = req[p].hwid

\* C6: two Activate calls on one unbound key can race.  Every Activate that
\* found the key unbound and whose commit goes through is answered "binded"
\* and leaves its own hardware ID in the record, whatever another request
\* stored there in the meantime: the last write wins (C6_Race is the state
\* two such calls with different hardware IDs end in).
C6_LastWriteWins == [][C6_Step]_vars

\* C6 witness: two different hardware IDs were both answered "binded" for
\* the same record, and the record holds the one answered last.
C6_Race ==
    \E k \in DOMAIN store :
        /\ Cardinality(binders[k]) = 2
        /\ last.op = "verify" /\ last.detail = "binded" /\ last.key = k
        /\ store[k].hwid = last.hwid

\* the steps C7 allows
C7_Step ==
    /\ (Answers("verify") /\ (Missing(last'.key) \/ Missing(last'.hwid)))
       => /\ last'.code = 400 /\ last'.detail = "invalid_request"
          /\ ~last'.session
          /\ pc' = pc /\ open' = open /\ store' = store
    /\ \A p \in Workers :
           pc'[p] = "verify_commit"
           => ~Missing(req'[p].key) /\ ~Missing(req'[p].hwid)

\* C7: an Activate whose key or hardware ID is None or empty is answered 400
\* "invalid_request" at once, with no session opened and the table and the
\* sessions as they were, whatever the state of the key; no such request
\* ever reaches the lookup or the commit.
C7_InvalidRequestFirst == [][C7_Step]_vars

\* C7 witness: a request with an empty or missing hardware ID on a key that
\* is bound was just answered invalid_request.
C7_Witness ==
    /\ last.op = "verify" /\ last.detail = "invalid_request"
    /\ Missing(last.hwid)
    /\ last.key \in DOMAIN store
    /\ store[last.key].hwid # None

\* the steps C8 allows
C8_Step ==
    (Answers("genkey") /\ last'.code = 200)
    => LET k == last'.key
       IN  /\ k \notin DOMAIN store
           /\ DOMAIN store' = DOMAIN store \cup {k}
           /\ store'[k] = [hwid |-> None, nickname |-> None, active |-> TRUE]
           /\ \A k2 \in DOMAIN store : store'[k2] = store[k2]

\* C8: an IssueKey that returns key k adds the record of k, which was not
\* there, with hwid and nickname None and active TRUE, and leaves every
\* other record as it was.
C8_IssueAddsOneRecord == [][C8_Step]_vars

\* C8 witness: a key was just issued while another key is bound.
C8_Witness ==
    /\ last.op = "genkey" /\ last.code = 200
    /\ last.key \in DOMAIN store
    /\ store[last.key].hwid = None
    /\ \E k2 \in DOMAIN store \ {last.key} : store[k2].hwid # None

\* C9: a session is open only while its handler is between its lookup and
\* its commit: a worker that has answered, with a result, a 403/404 or a
\* 500, holds no session, and with no request in flight no session is open.
C9_SessionsClosed ==
    /\ \A p \in Workers : pc[p] = "idle" => p \notin open
    /\ InFlight = {} => Cardinality(open) = 0

\* C9 witness: a revoke of an existing key has just failed with a 500, no
\* request is in flight and no session is open.
C9_Witness ==
    /\ last.op = "revoke" /\ last.code = 500
    /\ last.key \in DOMAIN store
    /\ InFlight = {}
    /\ open = {}

\* the steps C10 allows
C10_Step ==
    (Answers("list_keys") /\ NoFailure)
    => /\ store' = store
       /\ Cardinality(last'.rows) = Cardinality(DOMAIN store)
       /\ \A k \in DOMAIN store :
              [key |-> k, hwid |-> store[k].hwid,
               nickname |-> store[k].nickname,
               active |-> store[k].active] \in last'.rows
       /\ \A e \in last'.rows : e.key \in DOMAIN store

\* C10: a ListKeys that is answered leaves the table as it was and returns,
\* for every record, exactly one entry, which carries the record's key,
\* hwid, nickname and active, and no other entry.
C10_ListIsTheTable == [][C10_Step]_vars

\* C10 witness: a list of two entries was just returned, one of them for a
\* bound key with a nickname.
C10_Witness ==
    /\ last.op = "list_keys" /\ last.code = 200
    /\ Cardinality(last.rows) = 2
    /\ \E e \in last.rows : e.hwid # None /\ e.nickname # None

\* what decides an Activate(k, h) according to C11: whether k has a record,
\* and the active and the hwid of that record; no nickname is read
Decision(k, h) ==
    IF Missing(k) \/ Missing(h) THEN "invalid_request"
    ELSE IF k \notin DOMAIN store THEN "invalid_key"
    ELSE IF ~store[k].active THEN "invalid_key"
    ELSE IF store[k].hwid = None THEN "bind"
    ELSE IF store[k].hwid = h THEN "ok"
    ELSE "hwid_mismatch"

\* the steps C11 allows
C11_Step ==
    /\ (AnswersAtOnce("verify") /\ NoFailure)
       => /\ last'.detail = Decision(last'.key, last'.hwid)
          /\ store' = store
    /\ \A p \in Workers :
           /\ (pc[p] = "idle" /\ pc'[p] = "verify_commit")
              => /\ Decision(req'[p].key, req'[p].hwid) = "bind"
                 /\ store' = store
           /\ (pc[p] = "verify_commit" /\ pc'[p] = "idle" /\ NoFailure)
              => /\ last'.detail = "binded"
                 /\ store'[req[p].key].hwid = req[p].hwid
                 /\ store'[req[p].key].active = store[req[p].key].active

\* C11: the nickname takes no part in the decision of Activate.  The answer
\* of an Activate(k, h) is the one Decision gives from k, h and the hwid and
\* active of the record of k, whatever nickname the request carries and
\* whatever nickname the record holds; a bind stores h with or without a
\* nickname.  So two requests with the same k and h, made in states that
\* agree on the records but for their nicknames, have the same outcome.
C11_NicknameNotAuthorizing == [][C11_Step]_vars

\* C11 witness: a request carrying the very nickname the record holds, but
\* another hardware ID, was just refused with hwid_mismatch.
C11_Witness ==
    /\ last.op = "verify" /\ last.detail = "hwid_mismatch"
    /\ last.key \in DOMAIN store
    /\ last.nickname # None
    /\ store[last.key].nickname = last.nickname
    /\ store[last.key].hwid # last.hwid

Upper == {"A", "B", "C", "D", "E", "F", "G", "H", "I", "J", "K", "L", "M",
          "N", "O", "P", "Q", "R", "S", "T", "U", "V", "W", "X", "Y", "Z"}

Digit == {"0", "1", "2", "3", "4", "5", "6", "7", "8", "9"}

\* k reads XXXXX-XXXXX-XXXXX
MatchesPattern(k) ==
    /\ Len(k) = 17
    /\ k[6] = "-" /\ k[12] = "-"
    /\ \A i \in (1..17) \ {6, 12} : k[i] \in Upper \cup Digit

\* C12: every key IssueKey returns, and so every key of the table, has
\* length 17, a dash at positions 6 and 12, and an uppercase letter or a
\* digit at each of the other 15 positions.
C12_KeyPattern ==
    /\ (last.op = "genkey" /\ last.code = 200) => MatchesPattern(last.key)
    /\ \A k \in DOMAIN store : MatchesPattern(k)

\* C12 witness: the second of two keys was just issued; it starts with a
\* digit and ends with a letter.
C12_Witness ==
    /\ last.op = "genkey" /\ last.code = 200
    /\ Cardinality(DOMAIN store) = 2
    /\ last.key \in DOMAIN store
    /\ last.key[1] \in Digit /\ last.key[17] \in Upper

\* the steps C13 allows
C13_Step ==
    /\ (AnswersAtOnce("verify") /\ NoFailure /\ last'.key \in DOMAIN store
            /\ ~Missing(last'.hwid)
            /\ store[last'.key].active
            /\ store[last'.key].hwid = last'.hwid)
       => /\ last'.code = 200 /\ last'.detail = "ok"
    /\ (Answers("verify") /\ last'.detail = "ok") => store' = store
    /\ \A k \in DOMAIN store \cap DOMAIN store' :
           store'[k].nickname # store[k].nickname
           => /\ Answers("verify") /\ last'.detail = "binded"
              /\ last'.key = k
              /\ store'[k].nickname = last'.nickname

\* C13: an Activate(k, h) that finds k bound to h is answered 200 "ok" and
\* leaves the table as it was, hwid, nickname and active of the record
\* included, whatever nickname the request carries; the nickname of a record
\* changes only in the step that answers "binded" for its key, to the
\* nickname of that request.
C13_VerifiedWritesNothing == [][C13_Step]_vars

\* C13 witness: a request carrying a nickname the record does not hold was
\* just answered "ok" with the hardware ID the key is bound to.
C13_Witness ==
    /\ last.op = "verify" /\ last.detail = "ok"
    /\ last.key \in DOMAIN store
    /\ store[last.key].hwid = last.hwid
    /\ last.nickname # None
    /\ store[last.key].nickname # last.nickname

\* the steps C14 allows
C14_Step ==
    /\ \A k \in DOMAIN store' : store'[k].active
    /\ (AnswersAtOnce("verify") /\ NoFailure /\ last'.detail = "invalid_key")
       => last'.key \notin DOMAIN store
    /\ \A k \in DOMAIN store \ DOMAIN store' :
           Answers("revoke") /\ last'.code = 200 /\ last'.key = k

\* C14: no step of the service leaves a record with active false; so an
\* Activate is answered "invalid_key" only for a key that has no record, and
\* a record disappears only in the step that answers a RevokeKey of its key
\* with 200.
C14_ActiveNeverCleared == [][C14_Step]_vars

\* C14 witness: a key that was issued and bound has no record any more, and
\* an Activate of it with the hardware ID it was bound to was just refused
\* with invalid_key.
C14_Witness ==
    /\ last.op = "verify" /\ last.detail = "invalid_key"
    /\ last.key \in Keys \ DOMAIN store
    /\ last.hwid \in binders[last.key]

\* the steps C15 allows
C15_Step ==
    (Answers("genkey") /\ last'.key \in DOMAIN store)
    => /\ last'.code = 500
       /\ store' = store

\* C15: an IssueKey whose generate_key() returns a key that has a record is
\* answered with a 500 and leaves the table as it was: the record keeps its
\* hwid, nickname and active.  (The table is keyed by the primary key, so it
\* holds one record per key by construction.)
C15_CollisionKeepsRecord == [][C15_Step]_vars

\* C15 witness: genkey drew the key of a bound record, the INSERT was
\* refused, and the record is still bound.
C15_Witness ==
    /\ last.op = "genkey" /\ last.detail = "IntegrityError"
    /\ last.key \in DOMAIN store
    /\ store[last.key].hwid # None
    /\ store[last.key].hwid \in binders[last.key]

\* the steps C16 allows
C16_Step ==
    /\ \A p \in Workers :
           (pc[p] = "verify_commit" /\ pc'[p] = "idle"
               /\ req[p].key \notin DOMAIN store)
           => /\ last'.op = "verify" /\ last'.code = 500
              /\ store' = store
    /\ Answers("verify") => DOMAIN store' \subseteq DOMAIN store
    /\ (AnswersAtOnce("verify") /\ NoFailure
            /\ ~Missing(last'.key) /\ ~Missing(last'.hwid)
            /\ last'.key \notin DOMAIN store)
       => last'.detail = "invalid_key"

\* C16: when the record of k is deleted between the lookup and the commit
\* of an Activate(k, h) that found k unbound, the commit fails: the request
\* is answered with a 500 and the table stays as it was, without k.  No step
\* of verify adds a record, and an Activate of a key without record is
\* answered "invalid_key".
C16_RevokeWinsOverBind == [][C16_Step]_vars

\* C16 witness: both requests are done: the UPDATE of the bind matched no
\* row, the key has no record and nothing was bound to it.
C16_Witness ==
    /\ last.op = "verify" /\ last.detail = "StaleDataError"
    /\ last.key \in Keys \ DOMAIN store
    /\ binders[last.key] = {}
    /\ InFlight = {}

\* this step answers a request to handler op of the other tables
Replies(op) == served' = served + 1 /\ reply'.op = op

\* the answer of this step is not the 500 of a database failure
Served == reply'.code # 500

\* the field of a request body, None when the body has no such field
Field(data, field) == IF data[field] = Absent THEN None ELSE data[field]

\* the roles C18 names
NamedRoles ==
    {<<"a", "d", "m", "i", "n">>, <<"r", "o", "o", "t">>,
     <<"k", "y", "r", "a", "t", "o", "r">>}

\* the role an add_admin request asks for: "admin" when it names none
AskedRole(data) ==
    IF data.role = Absent THEN <<"a", "d", "m", "i", "n">> ELSE data.role

\* the steps C18 allows
C18_Step ==
    /\ \A u \in DOMAIN admins' : admins'[u] \in NamedRoles
    /\ (Replies("add_admin") /\ AskedRole(reply'.data) \notin NamedRoles)
       => /\ reply'.code = 400
          /\ admins' = admins
    /\ (Replies("add_admin") /\ Served
            /\ AskedRole(reply'.data) \in NamedRoles
            /\ Field(reply'.data, "user_id") \in DOMAIN admins)
       => /\ reply'.code = 409
          /\ admins' = admins
    /\ (Replies("add_admin") /\ reply'.code = 200)
       => \E u \in UserIds \ DOMAIN admins :
              /\ Field(reply'.data, "user_id") \in {None, u}
              /\ DOMAIN admins' = DOMAIN admins \cup {u}
              /\ admins'[u] = AskedRole(reply'.data)
              /\ \A v \in DOMAIN admins : admins'[v] = admins[v]
    /\ (Replies("del_admin") /\ Served
            /\ Field(reply'.data, "user_id") \notin DOMAIN admins)
       => /\ reply'.code = 404
          /\ admins' = admins
    /\ (Replies("del_admin") /\ Served
            /\ Field(reply'.data, "user_id") \in DOMAIN admins)
       => /\ reply'.code = 200
          /\ DOMAIN admins' = DOMAIN admins \ {reply'.data.user_id}
          /\ \A v \in DOMAIN admins' : admins'[v] = admins[v]

\* C18: one request after the other: every role in the admins table is
\* admin, root or kyrator.  An add_admin asking for another role is answered
\* 400; one asking for one of the three for a user_id that has a row is
\* answered 409 (unless the database fails); both leave the table as it
\* was.  An add_admin answered 200 has added one row, for a user_id that had
\* none, with the role asked for.  A del_admin for a user_id without row is
\* answered 404 and leaves the table as it was; one for a user_id with a row
\* removes that row only.  (The table is keyed by user_id, its primary key:
\* one row per user_id by construction.)
C18_AdminsTable == [][C18_Step]_vars

\* C18 witness: an add_admin asking for another valid role for a user that
\* is an admin already was just answered 409; the stored role is the old one.
C18_Witness ==
    /\ reply.op = "add_admin" /\ reply.code = 409
    /\ reply.data.user_id \in DOMAIN admins
    /\ reply.data.role \in NamedRoles
    /\ admins[reply.data.user_id] # reply.data.role
    /\ Cardinality(DOMAIN admins) = 2

\* the last toggle_logs that returned set enabled = true
SwitchedOn == toggled = <<"bool", TRUE>>

\* the steps C19 allows
C19_Step ==
    /\ (Replies("log_message") /\ Served /\ ~SwitchedOn)
       => /\ reply'.code = 200 /\ reply'.detail = "disabled"
          /\ message_logs' = message_logs
    /\ message_logs' # message_logs
       => /\ SwitchedOn
          /\ Replies("log_message")
          /\ reply'.code = 200 /\ reply'.detail = "ok"
          /\ Len(message_logs') = Len(message_logs) + 1
          /\ \A i \in 1..Len(message_logs) : message_logs'[i] = message_logs[i]
          /\ message_logs'[Len(message_logs')].text = reply'.data.text
    /\ (Replies("toggle_logs")
            /\ reply'.data.enabled \notin {<<"bool", TRUE>>, <<"bool", FALSE>>})
       => /\ reply'.code = 400
          /\ log_config' = log_config
          /\ toggled' = toggled
    /\ (Replies("toggle_logs") /\ reply'.code = 200)
       => /\ reply'.data.enabled = toggled'
          /\ reply'.result = toggled'

\* C19: one request after the other: a log_message that arrives while the
\* last toggle_logs that returned did not set enabled = true (it set false,
\* or there was none) is answered "disabled" and adds no row (unless the
\* database fails, and then no row either); a row is added to message_logs
\* only by a log_message answered "ok" while the switch is on; a toggle_logs
\* whose "enabled" is not a boolean is answered 400 and leaves the setting
\* as it was.
C19_LoggingSwitch == [][C19_Step]_vars

\* C19 witness: logging was on and a message was stored; it was then
\* switched off, and a log_message was just answered "disabled".
C19_Witness ==
    /\ reply.op = "log_message" /\ reply.detail = "disabled"
    /\ toggled = <<"bool", FALSE>>
    /\ Len(message_logs) = 1

\* the body is a report with a date: a JSON object whose "current", or
\* which itself when it has no "current", is an object with a date that is
\* neither null nor empty
Dated(raw) ==
    /\ raw # EmptyStr
    /\ Loads(raw) # <<>>
    /\ LET data == Loads(raw)[1]
       IN  /\ IsDict(data)
           /\ IsDict(StatsOf(data))
           /\ Get(StatsOf(data)[2], "date", None) \notin {None, EmptyStr}

\* staff_stats holds at most one row per (staff, date), and total = bans +
\* mutes in every row
OneRowPerPair(table) ==
    \A r \in BagToSet(table) :
        /\ CopiesIn(r, table) = 1
        /\ \A q \in BagToSet(table) :
               (q.staff = r.staff /\ q.date = r.date) => q = r
        /\ r.total = r.bans + r.mutes

\* the part of C17 about the rows: after every step the table is as
\* OneRowPerPair says, and a report answered "ok" leaves the row of its
\* (staff, date) with its own bans and mutes and every other row as it was
C17_Rows ==
    /\ OneRowPerPair(staff_stats')
    /\ (Replies("report_stats") /\ reply'.detail = "ok")
       => LET data == Loads(reply'.data)[1]
              stats == StatsOf(data)
          IN  /\ Dated(reply'.data)
              /\ \E r \in BagToSet(staff_stats') :
                     /\ r.staff = StaffOf(data)
                     /\ r.date = stats[2].date
                     /\ r.bans = safe_int(Get(stats[2], "bans", None), 0)
                     /\ r.mutes = safe_int(Get(stats[2], "mutes", None), 0)
                     /\ \A q \in BagToSet(staff_stats) :
                            (q.staff # r.staff \/ q.date # r.date)
                            => q \in BagToSet(staff_stats')
                     /\ \A q \in BagToSet(staff_stats') :
                            q = r \/ q \in BagToSet(staff_stats)
    /\ staff_stats' # staff_stats
       => Replies("report_stats") /\ reply'.detail = "ok"

\* the part of C17 about the reports that are ignored: empty body, no JSON,
\* or no date
C17_Ignored ==
    (Replies("report_stats") /\ ~Dated(reply'.data))
    => /\ reply'.code = 200 /\ reply'.detail = "ignored"
       /\ staff_stats' = staff_stats

\* C17: one request after the other: staff_stats holds at most one row per
\* (staff, date), that row carries the bans and mutes of the last report
\* accepted for the pair, total = bans + mutes in every row; and a report
\* with an empty body, a body that is no JSON, or no date is answered
\* "ignored" and changes nothing.  (The last part fails: a JSON body with no
\* date that is no object, or whose "current" is no object, is answered
\* with a 500.)
C17_StatsUpsert == [][C17_Rows /\ C17_Ignored]_vars

====
